---- MODULE Spec2Model ----
(***************************************************************************)
(* A model of the implementation-neutral TLS API (src/api/src/lib.rs):     *)
(* the Certificate value object, the opaque Error, the type-erased         *)
(* TlsStream wrapper and the builder / connector / acceptor contracts.     *)
(***************************************************************************)
EXTENDS Integers, Sequences, FiniteSets, TLC

VARIABLES
    cert,        \* the live Certificate value, or NoCert once moved out
    certMade,    \* how the latest Certificate was constructed
    certOut,     \* what the latest into_der / into_pem call returned
    err,         \* the live tls_api Error value, or NoErr once moved out
    errMade,     \* how the latest Error was constructed, and from what
    errObs,      \* what the latest call on the Error returned
    profile,     \* the runtime feature the crate is compiled with
    stream,      \* the live TlsStream (a box holding one implementation), or NoStream
    streamCalls, \* how many poll calls the caller has made on the TlsStream
    streamObs,   \* the latest call made on the TlsStream and what it returned
    backendAlpn, \* whether the backend behind the traits implements ALPN
    cbuilder,    \* the TlsConnectorBuilder value
    connector,   \* the built TlsConnector, or NoConnector
    abuilder,    \* the TlsAcceptorBuilder value
    acceptor,    \* the built TlsAcceptor, or NoAcceptor
    calls,       \* the connect / accept futures, one per transport
    alpnSeen     \* the values supports_alpn() has returned, by side and phase

certVars == <<cert, certMade, certOut>>
errVars == <<err, errMade, errObs>>
streamVars == <<profile, stream, streamCalls, streamObs>>

tlsVars == <<backendAlpn, cbuilder, connector, abuilder, acceptor, calls, alpnSeen>>

vars == <<certVars, errVars, streamVars, tlsVars>>

exceptCert == <<errVars, streamVars, tlsVars>>
exceptErr == <<certVars, streamVars, tlsVars>>
exceptStream == <<certVars, errVars, tlsVars>>
exceptTls == <<certVars, errVars, streamVars>>

----------------------------------------------------------------------------
(* Bounds and value universes *)

MaxByte == 1
MaxLen == 3

Byte == 0..MaxByte
ByteSeqs == UNION {[1..n -> Byte] : n \in 0..MaxLen}

\* Option<T>
None == [some |-> FALSE]
Some(x) == [some |-> TRUE, val |-> x]

----------------------------------------------------------------------------
(* Certificate *)

CertificateFormat == {"DER", "PEM"}

Certificate(bytes, format) == [bytes |-> bytes, format |-> format]

NoCert == [moved |-> TRUE]

from_der_as_pem(der) == Certificate(der, "PEM")

from_der(der) == Certificate(der, "DER")

into_pem_any_format(self) == Some(self.bytes)

into_der(self) == IF self.format = "DER" THEN Some(self.bytes) ELSE None

into_pem(self) == IF self.format = "PEM" THEN Some(self.bytes) ELSE None

NoOut == [op |-> "none"]

CertInit ==
    /\ cert = NoCert
    /\ certMade = [how |-> "none"]
    /\ certOut = NoOut

\* Certificate::from_der(der)
FromDer ==
    \E der \in ByteSeqs :
        /\ cert' = from_der(der)
        /\ certMade' = [how |-> "from_der", arg |-> der]
        /\ certOut' = NoOut
        /\ UNCHANGED exceptCert

\* Certificate { bytes, format }: both fields are public
CertLiteral ==
    \E bytes \in ByteSeqs, format \in CertificateFormat :
        /\ cert' = Certificate(bytes, format)
        /\ certMade' = [how |-> "literal", arg |-> bytes, format |-> format]
        /\ certOut' = NoOut
        /\ UNCHANGED exceptCert

\* cert.into_der(): takes self by value
IntoDer ==
    /\ cert # NoCert
    /\ certOut' = [op |-> "into_der", res |-> into_der(cert), of |-> cert]
    /\ cert' = NoCert
    /\ UNCHANGED certMade
    /\ UNCHANGED exceptCert

\* cert.into_pem(): takes self by value
IntoPem ==
    /\ cert # NoCert
    /\ certOut' = [op |-> "into_pem", res |-> into_pem(cert), of |-> cert]
    /\ cert' = NoCert
    /\ UNCHANGED certMade
    /\ UNCHANGED exceptCert

CertNext == FromDer \/ CertLiteral \/ IntoDer \/ IntoPem

\* C1: a Certificate built by from_der(b) gives Some(b), the same bytes, from
\* into_der and None from into_pem.
C1_FromDerRoundTrip ==
    (certMade.how = "from_der" /\ certOut.op # "none") =>
        /\ certOut.op = "into_der" => certOut.res = Some(certMade.arg)
        /\ certOut.op = "into_pem" => certOut.res = None

C1_Witness ==
    /\ certMade.how = "from_der"
    /\ certOut.op = "into_der"
    /\ Len(certMade.arg) = MaxLen
    /\ certOut.res = Some(certMade.arg)

\* C2: an extraction returns bytes only when the stored format tag matches the
\* accessor (a PEM-tagged certificate: bytes from into_pem, None from into_der),
\* and the bytes returned are always the stored bytes, never a conversion.
C2_ExtractionMatchesFormat ==
    certOut.op # "none" =>
        /\ certOut.res.some <=>
              \/ certOut.op = "into_der" /\ certOut.of.format = "DER"
              \/ certOut.op = "into_pem" /\ certOut.of.format = "PEM"
        /\ certOut.res.some => certOut.res.val = certOut.of.bytes

C2_Witness ==
    /\ certOut.op = "into_pem"
    /\ certOut.of.format = "PEM"
    /\ Len(certOut.of.bytes) = MaxLen
    /\ certOut.res = Some(certOut.of.bytes)

----------------------------------------------------------------------------
(* Error *)

\* io::ErrorKind values used as inputs
ErrorKinds == {"NotFound", "ConnectionReset", "Other"}

Messages == {"handshake failed", "bad certificate"}

\* Values implementing std::error::Error that a backend may hand to Error::new.
BackendError(msg, source) == [type |-> "backend", msg |-> msg, source |-> source]
StringError(msg) == [type |-> "string", msg |-> msg]
IoError(kind, custom) == [type |-> "io", kind |-> kind, custom |-> custom]

\* io::Error::new(kind, payload): a Custom io::Error boxing the payload
io_Error_new(kind, payload) == IoError(kind, Some(payload))

RootErrors == {BackendError(m, None) : m \in Messages}
ChainedErrors == {BackendError("tls failure", Some(r)) : r \in RootErrors}
IoErrors ==
    {IoError(k, None) : k \in ErrorKinds}
        \cup {io_Error_new(k, p) : k \in ErrorKinds, p \in RootErrors \cup ChainedErrors}

NoErr == [moved |-> TRUE]

\* Error::new(e) == Error(Box::new(e))
Error_new(e) == [type |-> "tls_api", inner |-> e]

\* Error::new_other(message)
Error_new_other(message) == Error_new(io_Error_new("Other", StringError(message)))

\* Error::into_inner(self) == self.0
Error_into_inner(self) == self.inner

Error_from_io_as_message(e) == Error_new_other("io error")

\* impl From<io::Error> for Error
Error_from_io(e) == Error_new(e)

io_Error_from_Error_keeping_kind(e) ==
    IF e.inner.type = "io" THEN e.inner ELSE io_Error_new("Other", e)

\* impl From<Error> for io::Error
io_Error_from_Error(e) == io_Error_new("Other", e)

\* Display of a bare io::ErrorKind
KindDescription(kind) ==
    CASE kind = "NotFound" -> "entity not found"
      [] kind = "ConnectionReset" -> "connection reset"
      [] OTHER -> "other error"

RECURSIVE Display(_), Source(_), Error_source(_)

\* <Error as fmt::Display>::fmt: the display text of the boxed cause
Error_Display(self) == Display(self.inner)

\* fmt::Display through the trait object
Display(e) ==
    CASE e.type = "tls_api" -> Error_Display(e)
      [] e.type = "io" ->
            IF e.custom.some THEN Display(e.custom.val) ELSE KindDescription(e.kind)
      [] OTHER -> e.msg

Error_source_is_inner(self) == Some(self.inner)

\* <Error as error::Error>::source: the source() of the boxed cause
Error_source(self) == Source(self.inner)

\* error::Error::source through the trait object
Source(e) ==
    CASE e.type = "tls_api" -> Error_source(e)
      [] e.type = "io" -> IF e.custom.some THEN Source(e.custom.val) ELSE None
      [] e.type = "backend" -> e.source
      [] OTHER -> None

\* Everything a caller may box into an Error: backend errors with and without
\* a cause, io errors, and an already wrapped Error.
Causes ==
    RootErrors \cup ChainedErrors \cup IoErrors \cup {Error_new(r) : r \in ChainedErrors}

ErrInit ==
    /\ err = NoErr
    /\ errMade = [how |-> "none"]
    /\ errObs = NoOut

ErrorNew ==
    \E e \in Causes :
        /\ err' = Error_new(e)
        /\ errMade' = [how |-> "new", cause |-> e]
        /\ errObs' = NoOut
        /\ UNCHANGED exceptErr

ErrorNewOther ==
    \E m \in Messages :
        /\ err' = Error_new_other(m)
        /\ errMade' = [how |-> "new_other", msg |-> m]
        /\ errObs' = NoOut
        /\ UNCHANGED exceptErr

ErrorFromIo ==
    \E e \in IoErrors :
        /\ err' = Error_from_io(e)
        /\ errMade' = [how |-> "from_io", cause |-> e]
        /\ errObs' = NoOut
        /\ UNCHANGED exceptErr

\* err.into_inner(): takes self by value
ErrorIntoInner ==
    /\ err # NoErr
    /\ errObs' = [op |-> "into_inner", res |-> Error_into_inner(err), of |-> err]
    /\ err' = NoErr
    /\ UNCHANGED errMade
    /\ UNCHANGED exceptErr

\* err.source(): borrows self
ErrorSource ==
    /\ err # NoErr
    /\ errObs' = [op |-> "source", res |-> Error_source(err), of |-> err]
    /\ UNCHANGED <<err, errMade>>
    /\ UNCHANGED exceptErr

\* err.to_string(): borrows self
ErrorDisplay ==
    /\ err # NoErr
    /\ errObs' = [op |-> "display", res |-> Error_Display(err), of |-> err]
    /\ UNCHANGED <<err, errMade>>
    /\ UNCHANGED exceptErr

\* io::Error::from(err): takes the Error by value
ErrorIntoIo ==
    /\ err # NoErr
    /\ errObs' = [op |-> "into_io", res |-> io_Error_from_Error(err), of |-> err]
    /\ err' = NoErr
    /\ UNCHANGED errMade
    /\ UNCHANGED exceptErr

ErrNext ==
    \/ ErrorNew
    \/ ErrorNewOther
    \/ ErrorFromIo
    \/ ErrorIntoInner
    \/ ErrorSource
    \/ ErrorDisplay
    \/ ErrorIntoIo

\* C4: converting an Error into io::Error gives kind Other whatever the wrapped
\* cause is, and the io::Error displays the same text as the Error did.
C4_IntoIoIsOtherSameMessage ==
    errObs.op = "into_io" =>
        /\ errObs.res.type = "io"
        /\ errObs.res.kind = "Other"
        /\ Display(errObs.res) = Error_Display(errObs.of)
        /\ errMade.how \in {"new", "from_io"} => Display(errObs.res) = Display(errMade.cause)

C4_Witness ==
    /\ errObs.op = "into_io"
    /\ errMade.how = "from_io"
    /\ errMade.cause.kind = "NotFound"
    /\ errObs.res.kind = "Other"
    /\ Display(errObs.res) = "entity not found"

\* C5: into_inner gives back the very cause the Error was built from; for an
\* Error built from an io::Error that is the io::Error, kind and message intact.
C5_IntoInnerIsCause ==
    (errObs.op = "into_inner" /\ errMade.how \in {"new", "from_io"}) =>
        /\ errObs.res = errMade.cause
        /\ errMade.how = "from_io" =>
              /\ errObs.res.kind = errMade.cause.kind
              /\ Display(errObs.res) = Display(errMade.cause)

C5_Witness ==
    /\ errObs.op = "into_inner"
    /\ errMade.how = "from_io"
    /\ errMade.cause.kind = "ConnectionReset"
    /\ errObs.res = errMade.cause

\* C6: source() of Error::new(E) is E.source(): None when E has no cause, and
\* the chain of causes reachable from the Error is E's own chain.
C6_SourceIsCauseSource ==
    (errObs.op = "source" /\ errMade.how \in {"new", "from_io"}) =>
        errObs.res = Source(errMade.cause)

C6_Witness ==
    /\ errObs.op = "source"
    /\ errMade.how = "new"
    /\ errMade.cause \in ChainedErrors
    /\ errObs.res = errMade.cause.source
    /\ errObs.res.some

----------------------------------------------------------------------------
(* TlsStreamImpl and TlsStream *)

MaxBuf == 2
MaxCalls == 3

Buffers == UNION {[1..n -> Byte] : n \in 0..MaxBuf}

\* cfg(feature = ...): which of poll_close / poll_shutdown is compiled in
Profiles == {"runtime-async-std", "runtime-tokio"}

Protocols == {"h2", "http/1.1"}
Transports == {"tcp-a", "tcp-b"}

\* Poll<io::Result<T>>
Pending == [poll |-> "Pending"]
ReadyOk(v) == [poll |-> "Ready", ok |-> TRUE, val |-> v]
ReadyErr(kind) == [poll |-> "Ready", ok |-> FALSE, kind |-> kind]

PollErrors == {ReadyErr(k) : k \in {"ConnectionReset", "UnexpectedEof"}}

\* What an implementation may answer to a poll call. A read of Ok(n) puts n bytes
\* into the caller's buffer (of capacity buf); a write of Ok(n) takes n <= len.
ImplAnswers(op, buf) ==
    {Pending} \cup PollErrors \cup
        CASE op = "poll_read" -> {ReadyOk(d) : d \in {b \in Buffers : Len(b) <= buf}}
          [] op = "poll_write" -> {ReadyOk(n) : n \in 0..Len(buf)}
          [] OTHER -> {ReadyOk("unit")}

\* The implementations a backend may box into a TlsStream: each holds one
\* transport and the ALPN protocol its handshake negotiated, if any.
Impls ==
    [alpn : {None} \cup {Some(p) : p \in Protocols},
     transport : Transports,
     polls : {0},
     last : {NoOut}]

NoStream == [dropped |-> TRUE]

\* An implementation receiving one poll call and answering it.
ImplPoll(imp, op, buf, answer) ==
    [imp |-> [imp EXCEPT !.polls = @ + 1,
                         !.last = [op |-> op, buf |-> buf, res |-> answer]],
     ret |-> answer]

\* TlsStreamImpl::get_alpn_protocol / get_mut / get_ref of an implementation
Impl_get_alpn_protocol(imp) == imp.alpn
Impl_get_mut(imp) == imp.transport
Impl_get_ref(imp) == imp.transport

\* TlsStream::new(imp) == TlsStream(Box::new(imp))
TlsStream_new(imp) == [imp |-> imp]

TlsStream_get_mut(self) == Impl_get_mut(self.imp)

TlsStream_get_ref(self) == Impl_get_ref(self.imp)

TlsStream_get_alpn_protocol_unwired(self) == None

TlsStream_get_alpn_protocol(self) == Impl_get_alpn_protocol(self.imp)

\* Forwarding one poll call to the boxed implementation: Pin::new(&mut self.0).poll_*(..)
Forward(self, op, buf, answer) ==
    LET r == ImplPoll(self.imp, op, buf, answer)
    IN  [self |-> [imp |-> r.imp], ret |-> r.ret]

TlsStream_poll_read(self, buf, answer) == Forward(self, "poll_read", buf, answer)

TlsStream_poll_write_would_block(self, buf, answer) ==
    LET r == Forward(self, "poll_write", buf, answer)
    IN  IF r.ret = Pending THEN [r EXCEPT !.ret = ReadyErr("WouldBlock")] ELSE r

TlsStream_poll_write(self, buf, answer) == Forward(self, "poll_write", buf, answer)

TlsStream_poll_flush(self, answer) == Forward(self, "poll_flush", "none", answer)

TlsStream_poll_close(self, answer) == Forward(self, "poll_close", "none", answer)

TlsStream_poll_shutdown(self, answer) == Forward(self, "poll_shutdown", "none", answer)

\* no TlsStream has been made
StreamUnused ==
    /\ stream = NoStream
    /\ streamCalls = 0
    /\ streamObs = NoOut

StreamInit ==
    /\ profile \in Profiles
    /\ StreamUnused

StreamNew ==
    /\ stream = NoStream
    /\ \E imp \in Impls : stream' = TlsStream_new(imp)
    /\ streamCalls' = 0
    /\ streamObs' = NoOut
    /\ UNCHANGED <<profile, exceptStream>>

\* The caller drops the TlsStream.
StreamDrop ==
    /\ stream # NoStream
    /\ stream' = NoStream
    /\ streamCalls' = 0
    /\ streamObs' = NoOut
    /\ UNCHANGED <<profile, exceptStream>>

\* One poll call on the TlsStream: r is what the method gives back.
Polled(op, buf, r) ==
    /\ stream' = r.self
    /\ streamCalls' = streamCalls + 1
    /\ streamObs' = [op |-> op, buf |-> buf, res |-> r.ret]
    /\ UNCHANGED <<profile, exceptStream>>

PollRead ==
    /\ stream # NoStream
    /\ streamCalls < MaxCalls
    /\ \E buf \in 0..MaxBuf : \E answer \in ImplAnswers("poll_read", buf) :
           Polled("poll_read", buf, TlsStream_poll_read(stream, buf, answer))

PollWrite ==
    /\ stream # NoStream
    /\ streamCalls < MaxCalls
    /\ \E buf \in Buffers : \E answer \in ImplAnswers("poll_write", buf) :
           Polled("poll_write", buf, TlsStream_poll_write(stream, buf, answer))

PollFlush ==
    /\ stream # NoStream
    /\ streamCalls < MaxCalls
    /\ \E answer \in ImplAnswers("poll_flush", "none") :
           Polled("poll_flush", "none", TlsStream_poll_flush(stream, answer))

PollClose ==
    /\ profile = "runtime-async-std"
    /\ stream # NoStream
    /\ streamCalls < MaxCalls
    /\ \E answer \in ImplAnswers("poll_close", "none") :
           Polled("poll_close", "none", TlsStream_poll_close(stream, answer))

PollShutdown ==
    /\ profile = "runtime-tokio"
    /\ stream # NoStream
    /\ streamCalls < MaxCalls
    /\ \E answer \in ImplAnswers("poll_shutdown", "none") :
           Polled("poll_shutdown", "none", TlsStream_poll_shutdown(stream, answer))

\* One accessor call on the TlsStream: it borrows the stream and returns res.
Accessed(op, res) ==
    /\ streamObs' = [op |-> op, res |-> res, self |-> stream]
    /\ UNCHANGED <<profile, stream, streamCalls, exceptStream>>

GetAlpnProtocol ==
    /\ stream # NoStream
    /\ Accessed("get_alpn_protocol", TlsStream_get_alpn_protocol(stream))

GetRef ==
    /\ stream # NoStream
    /\ Accessed("get_ref", TlsStream_get_ref(stream))

GetMut ==
    /\ stream # NoStream
    /\ Accessed("get_mut", TlsStream_get_mut(stream))

StreamNext ==
    \/ StreamNew
    \/ StreamDrop
    \/ PollRead
    \/ PollWrite
    \/ PollFlush
    \/ PollClose
    \/ PollShutdown
    \/ GetAlpnProtocol
    \/ GetRef
    \/ GetMut

PollOps == {"poll_read", "poll_write", "poll_flush", "poll_close", "poll_shutdown"}
AccessorOps == {"get_alpn_protocol", "get_ref", "get_mut"}

\* C3: every poll call on the TlsStream reaches the owned implementation exactly
\* once, with the same buffer, and the TlsStream returns the implementation's
\* own result; the TlsStream holds nothing but the implementation.
C3_PollsForwardedUnchanged ==
    stream # NoStream =>
        /\ DOMAIN stream = {"imp"}
        /\ stream.imp.polls = streamCalls
        /\ streamObs.op \in PollOps =>
              /\ stream.imp.last.op = streamObs.op
              /\ stream.imp.last.buf = streamObs.buf
              /\ stream.imp.last.res = streamObs.res
              /\ streamObs.res \in ImplAnswers(streamObs.op, streamObs.buf)

C3_Witness ==
    /\ stream # NoStream
    /\ streamCalls = MaxCalls
    /\ streamObs.op = "poll_write"
    /\ streamObs.res = Pending
    /\ Len(streamObs.buf) = MaxBuf
    /\ stream.imp.last.res = Pending

\* C10: get_alpn_protocol, get_ref and get_mut return what the one owned
\* implementation returns (its negotiated protocol or None, its transport), and
\* the call leaves the stream, its implementation and its transport as they were.
C10_AccessorsDelegate ==
    streamObs.op \in AccessorOps =>
        /\ stream = streamObs.self
        /\ streamObs.op = "get_alpn_protocol" => streamObs.res = stream.imp.alpn
        /\ streamObs.op = "get_ref" => streamObs.res = stream.imp.transport
        /\ streamObs.op = "get_mut" => streamObs.res = stream.imp.transport

C10_Witness ==
    /\ streamObs.op = "get_alpn_protocol"
    /\ streamObs.res = Some("h2")
    /\ stream.imp.polls > 0

----------------------------------------------------------------------------
(* TlsConnectorBuilder / TlsConnector, TlsAcceptorBuilder / TlsAcceptor *)

NumCalls == 2

CallIds == 1..NumCalls

ProtocolLists == {<<"h2", "http/1.1">>, <<"http/1.1">>}

\* The certificates a caller registers as trust roots.
RootCandidates == {from_der(<<0>>), Certificate(<<1>>, "PEM")}

Domains == {"example.org"}

\* The server a transport given to connect leads to.
ServerPeers ==
    {[host |-> "example.org", cert |-> <<0>>, alpn |-> <<"http/1.1">>, up |-> TRUE],
     [host |-> "other.org", cert |-> <<0>>, alpn |-> <<>>, up |-> TRUE],
     [host |-> "example.org", cert |-> <<0>>, alpn |-> <<"http/1.1">>, up |-> FALSE]}

\* The client a transport given to accept comes from.
ClientPeers ==
    {[alpn |-> <<"h2", "http/1.1">>, up |-> TRUE],
     [alpn |-> <<"http/1.1">>, up |-> FALSE]}

NoBuilder == [state |-> "absent"]
ConsumedBuilder == [state |-> "consumed"]
NoConnector == [built |-> FALSE]
NoAcceptor == [built |-> FALSE]
IdleCall == [pc |-> "idle"]

Ok(v) == [ok |-> TRUE, val |-> v]
Err(e) == [ok |-> FALSE, err |-> e]

\* TlsConnectorBuilder::supports_alpn() / TlsAcceptorBuilder::supports_alpn():
\* associated functions without a receiver, answered by the backend.
TlsConnectorBuilder_supports_alpn == backendAlpn

TlsAcceptorBuilder_supports_alpn == backendAlpn

TlsConnector_supports_alpn_hardcoded == TRUE

\* TlsConnector::supports_alpn(): the provided method asks the Builder type
TlsConnector_supports_alpn == TlsConnectorBuilder_supports_alpn

\* TlsAcceptor::supports_alpn(): the provided method asks the Builder type
TlsAcceptor_supports_alpn == TlsAcceptorBuilder_supports_alpn

\* TlsConnector::builder(): a fresh builder with the backend's defaults
NewConnectorBuilder == [state |-> "unbuilt", alpn |-> <<>>, verify |-> TRUE, roots |-> {}]

NewAcceptorBuilder == [state |-> "unbuilt", alpn |-> <<>>]

\* set_alpn_protocols(&mut self, protocols): rejected by a backend without ALPN
set_alpn_protocols(b, protocols) ==
    IF backendAlpn THEN [b EXCEPT !.alpn = protocols] ELSE b

\* set_verify_hostname(&mut self, verify)
set_verify_hostname(b, verify) == [b EXCEPT !.verify = verify]

\* add_root_certificate(&mut self, cert): the backend takes the binary encoding
\* and rejects a certificate that does not give one
add_root_certificate(b, c) ==
    IF into_der(c).some THEN [b EXCEPT !.roots = @ \cup {into_der(c).val}] ELSE b

ConnectorBuilderAfterBuild_kept(b) == b

\* build(self): the builder is moved into the call
ConnectorBuilderAfterBuild(b) == ConsumedBuilder

AcceptorBuilderAfterBuild(b) == ConsumedBuilder

\* the Connector / Acceptor a successful build yields: the builder's configuration
ConnectorOf(b) == [built |-> TRUE, alpn |-> b.alpn, verify |-> b.verify, roots |-> b.roots]

AcceptorOf(b) == [built |-> TRUE, alpn |-> b.alpn]

\* ALPN: the first protocol of the server's list that the client offers
Negotiate(serverList, clientList) ==
    LET common == {k \in 1..Len(serverList) :
                      \E j \in 1..Len(clientList) : clientList[j] = serverList[k]}
    IN  IF common = {} THEN None
        ELSE Some(serverList[CHOOSE k \in common : \A m \in common : k <= m])

\* The client handshake over one transport under one configuration.
ClientHandshake(c, domain, transport, peer) ==
    IF ~peer.up THEN Err("io: connection reset")
    ELSE IF peer.cert \notin c.roots THEN Err("handshake: untrusted certificate")
    ELSE IF c.verify /\ peer.host # domain THEN Err("handshake: hostname mismatch")
    ELSE Ok(TlsStream_new([alpn |-> Negotiate(peer.alpn, c.alpn),
                           transport |-> transport, polls |-> 0, last |-> NoOut]))

\* The server handshake over one transport under one configuration.
ServerHandshake(a, transport, peer) ==
    IF ~peer.up THEN Err("io: connection reset")
    ELSE Ok(TlsStream_new([alpn |-> Negotiate(a.alpn, peer.alpn),
                           transport |-> transport, polls |-> 0, last |-> NoOut]))

ConnectOutcome_poisoned(i) ==
    IF \E j \in CallIds \ {i} : calls[j].pc = "done" /\ ~calls[j].res.ok
    THEN Err("handshake: connector poisoned")
    ELSE ClientHandshake(connector, calls[i].domain, i, calls[i].peer)

\* What the future of connect call i resolves to.
ConnectOutcome(i) == ClientHandshake(connector, calls[i].domain, i, calls[i].peer)

\* What the future of accept call i resolves to.
AcceptOutcome(i) == ServerHandshake(acceptor, i, calls[i].peer)

NoneSeen == [before |-> {}, after |-> {}]

\* no builder has been made
TlsUnused ==
    /\ cbuilder = NoBuilder
    /\ connector = NoConnector
    /\ abuilder = NoBuilder
    /\ acceptor = NoAcceptor
    /\ calls = [i \in CallIds |-> IdleCall]
    /\ alpnSeen = [connector |-> NoneSeen, acceptor |-> NoneSeen]

TlsInit ==
    /\ backendAlpn \in BOOLEAN
    /\ TlsUnused

ConnectorBuilderNew ==
    /\ cbuilder = NoBuilder
    /\ cbuilder' = NewConnectorBuilder
    /\ UNCHANGED <<backendAlpn, connector, abuilder, acceptor, calls, alpnSeen, exceptTls>>

ConnectorSetAlpnProtocols ==
    /\ cbuilder.state = "unbuilt"
    /\ \E protocols \in ProtocolLists : cbuilder' = set_alpn_protocols(cbuilder, protocols)
    /\ UNCHANGED <<backendAlpn, connector, abuilder, acceptor, calls, alpnSeen, exceptTls>>

ConnectorSetVerifyHostname ==
    /\ cbuilder.state = "unbuilt"
    /\ \E verify \in BOOLEAN : cbuilder' = set_verify_hostname(cbuilder, verify)
    /\ UNCHANGED <<backendAlpn, connector, abuilder, acceptor, calls, alpnSeen, exceptTls>>

ConnectorAddRootCertificate ==
    /\ cbuilder.state = "unbuilt"
    /\ \E c \in RootCandidates : cbuilder' = add_root_certificate(cbuilder, c)
    /\ UNCHANGED <<backendAlpn, connector, abuilder, acceptor, calls, alpnSeen, exceptTls>>

\* builder.build(): Ok(connector), or Err when the backend refuses the configuration
ConnectorBuild ==
    /\ cbuilder.state = "unbuilt"
    /\ \E accepted \in BOOLEAN :
           connector' = IF accepted THEN ConnectorOf(cbuilder) ELSE connector
    /\ cbuilder' = ConnectorBuilderAfterBuild(cbuilder)
    /\ UNCHANGED <<backendAlpn, abuilder, acceptor, calls, alpnSeen, exceptTls>>

AcceptorBuilderNew ==
    /\ abuilder = NoBuilder
    /\ abuilder' = NewAcceptorBuilder
    /\ UNCHANGED <<backendAlpn, cbuilder, connector, acceptor, calls, alpnSeen, exceptTls>>

AcceptorSetAlpnProtocols ==
    /\ abuilder.state = "unbuilt"
    /\ \E protocols \in ProtocolLists : abuilder' = set_alpn_protocols(abuilder, protocols)
    /\ UNCHANGED <<backendAlpn, cbuilder, connector, acceptor, calls, alpnSeen, exceptTls>>

AcceptorBuild ==
    /\ abuilder.state = "unbuilt"
    /\ \E accepted \in BOOLEAN :
           acceptor' = IF accepted THEN AcceptorOf(abuilder) ELSE acceptor
    /\ abuilder' = AcceptorBuilderAfterBuild(abuilder)
    /\ UNCHANGED <<backendAlpn, cbuilder, connector, calls, alpnSeen, exceptTls>>

\* connector.connect(domain, stream): borrows the connector, takes the transport
ConnectStart ==
    /\ connector.built
    /\ \E i \in CallIds, domain \in Domains, peer \in ServerPeers :
           /\ calls[i].pc = "idle"
           /\ calls' = [calls EXCEPT ![i] = [pc |-> "handshaking", kind |-> "connect",
                                             domain |-> domain, peer |-> peer]]
    /\ UNCHANGED <<backendAlpn, cbuilder, connector, abuilder, acceptor, alpnSeen, exceptTls>>

\* the future of a connect call resolves
ConnectFinish ==
    /\ \E i \in CallIds :
           /\ calls[i].pc = "handshaking"
           /\ calls[i].kind = "connect"
           /\ calls' = [calls EXCEPT ![i] = [pc |-> "done", kind |-> "connect",
                                             domain |-> calls[i].domain,
                                             peer |-> calls[i].peer,
                                             res |-> ConnectOutcome(i)]]
    /\ UNCHANGED <<backendAlpn, cbuilder, connector, abuilder, acceptor, alpnSeen, exceptTls>>

\* acceptor.accept(stream): borrows the acceptor, takes the transport
AcceptStart ==
    /\ acceptor.built
    /\ \E i \in CallIds, peer \in ClientPeers :
           /\ calls[i].pc = "idle"
           /\ calls' = [calls EXCEPT ![i] = [pc |-> "handshaking", kind |-> "accept",
                                             peer |-> peer]]
    /\ UNCHANGED <<backendAlpn, cbuilder, connector, abuilder, acceptor, alpnSeen, exceptTls>>

\* the future of an accept call resolves
AcceptFinish ==
    /\ \E i \in CallIds :
           /\ calls[i].pc = "handshaking"
           /\ calls[i].kind = "accept"
           /\ calls' = [calls EXCEPT ![i] = [pc |-> "done", kind |-> "accept",
                                             peer |-> calls[i].peer,
                                             res |-> AcceptOutcome(i)]]
    /\ UNCHANGED <<backendAlpn, cbuilder, connector, abuilder, acceptor, alpnSeen, exceptTls>>

Seen(side, phase, v) ==
    /\ alpnSeen' = [alpnSeen EXCEPT ![side][phase] = @ \cup {v}]
    /\ UNCHANGED <<backendAlpn, cbuilder, connector, abuilder, acceptor, calls, exceptTls>>

\* <B as TlsConnectorBuilder>::supports_alpn(), asked while holding the builder
ConnectorBuilderSupportsAlpn ==
    /\ cbuilder.state = "unbuilt"
    /\ Seen("connector", "before", TlsConnectorBuilder_supports_alpn)

\* <C as TlsConnector>::supports_alpn(), asked while holding the connector
ConnectorSupportsAlpn ==
    /\ connector.built
    /\ Seen("connector", "after", TlsConnector_supports_alpn)

AcceptorBuilderSupportsAlpn ==
    /\ abuilder.state = "unbuilt"
    /\ Seen("acceptor", "before", TlsAcceptorBuilder_supports_alpn)

AcceptorSupportsAlpn ==
    /\ acceptor.built
    /\ Seen("acceptor", "after", TlsAcceptor_supports_alpn)

TlsNext ==
    \/ ConnectorBuilderNew
    \/ ConnectorSetAlpnProtocols
    \/ ConnectorSetVerifyHostname
    \/ ConnectorAddRootCertificate
    \/ ConnectorBuild
    \/ AcceptorBuilderNew
    \/ AcceptorSetAlpnProtocols
    \/ AcceptorBuild
    \/ ConnectStart
    \/ ConnectFinish
    \/ AcceptStart
    \/ AcceptFinish
    \/ ConnectorBuilderSupportsAlpn
    \/ ConnectorSupportsAlpn
    \/ AcceptorBuilderSupportsAlpn
    \/ AcceptorSupportsAlpn

Sides == {"connector", "acceptor"}

\* C7: supports_alpn() is stable: what the builder type answers before build is
\* what the built Connector (Acceptor) answers after build, and no setter, build,
\* connect or accept call in between changes the answer.
C7_SupportsAlpnStable ==
    \A side \in Sides :
        Cardinality(alpnSeen[side].before \cup alpnSeen[side].after) <= 1

C7_Witness ==
    /\ ~backendAlpn
    /\ alpnSeen.connector.before = {FALSE}
    /\ alpnSeen.connector.after = {FALSE}
    /\ alpnSeen.acceptor.before # {}
    /\ alpnSeen.acceptor.after # {}
    /\ \E i \in CallIds : calls[i].pc = "done"

\* One step of a builder and of what it builds: a consumed builder stays consumed
\* and is not touched again, a builder never returns to an earlier state, the
\* built value appears in the one step that consumes the builder and holds the
\* builder's configuration, and a built value never changes.
Lifecycle(b, bNext, built, builtNext, Of(_)) ==
    /\ b.state = "consumed" => bNext = b
    /\ b.state = "unbuilt" => bNext.state \in {"unbuilt", "consumed"}
    /\ built.built => builtNext = built
    /\ builtNext # built =>
          /\ b.state = "unbuilt"
          /\ bNext.state = "consumed"
          /\ builtNext = Of(b)

\* C8: the builder goes Unbuilt -> Built and never back: the setters act on an
\* unbuilt builder only, build consumes the builder once, and the configuration
\* of the Connector / Acceptor (trust roots, ALPN list, hostname verification) is
\* never changed afterwards, whatever connect and accept calls run.
C8_BuilderLifecycle ==
    [][/\ Lifecycle(cbuilder, cbuilder', connector, connector', ConnectorOf)
       /\ Lifecycle(abuilder, abuilder', acceptor, acceptor', AcceptorOf)]_vars

C8_Witness ==
    /\ cbuilder.state = "consumed"
    /\ connector.built
    /\ connector.roots # {}
    /\ connector.alpn # <<>>
    /\ ~connector.verify
    /\ abuilder.state = "consumed"
    /\ acceptor.built
    /\ \E i, j \in CallIds :
          /\ calls[i].pc = "done" /\ calls[i].kind = "connect"
          /\ calls[j].pc = "done" /\ calls[j].kind = "accept"

\* C9: concurrent connect calls on one Connector are independent: in every
\* interleaving each finished connect has the outcome that its own transport and
\* the frozen configuration give, whatever became of the other calls.
C9_ConnectsIndependent ==
    \A i \in CallIds :
        (calls[i].pc = "done" /\ calls[i].kind = "connect") =>
            /\ connector.built
            /\ calls[i].res = ClientHandshake(connector, calls[i].domain, i, calls[i].peer)
            /\ \A j \in CallIds :
                  (/\ calls[j].pc = "done" /\ calls[j].kind = "connect"
                   /\ calls[j].peer = calls[i].peer /\ calls[j].domain = calls[i].domain)
                      => calls[j].res.ok = calls[i].res.ok

C9_Witness ==
    \E i, j \in CallIds :
        /\ calls[i].pc = "done" /\ calls[i].kind = "connect" /\ ~calls[i].res.ok
        /\ calls[j].pc = "done" /\ calls[j].kind = "connect" /\ calls[j].res.ok
        /\ calls[j].res.val.imp.transport = j

----------------------------------------------------------------------------

\* Each specification exercises one component from its fresh state; the others
\* stay unused under one build profile and one backend.
OtherProfile == profile = "runtime-tokio"
OtherBackend == backendAlpn = TRUE

Init == CertInit /\ ErrInit /\ StreamInit /\ TlsInit

InitValues == Init /\ OtherProfile /\ OtherBackend

InitStream == Init /\ OtherBackend

InitTls == Init /\ OtherProfile

SpecCert == InitValues /\ [][CertNext]_vars

SpecErr == InitValues /\ [][ErrNext]_vars

SpecStream == InitStream /\ [][StreamNext]_vars

SpecTls == InitTls /\ [][TlsNext]_vars

====
